---- MODULE Spec2Model ----
(***************************************************************************)
(* One TradingBot of main.py as a state machine: the run() loop, one       *)
(* action per step of a tick, with execute_trade, check_open_trades,       *)
(* close_trade and update_risk_metrics translated from their code.         *)
(*                                                                         *)
(* Numbers.  The program computes in floats; the model computes in fixed   *)
(* point.  Prices are integers in 1/1000 of a quote unit, money is in      *)
(* cents, and every configured fraction (position_size, stop_loss,         *)
(* take_profit, spread, slippage, max_daily_loss, max_drawdown) and every  *)
(* drawdown is in 1/10000.  Products are rounded towards zero.             *)
(***************************************************************************)
EXTENDS Integers, Sequences, FiniteSets, TLC

\* Number of loop iterations (ticks) of run() the model follows.
MaxTicks == 3

FracScale == 100 * 100
PriceScale == 10 * 100
MoneyScale == 10 * 10

\* Division rounded towards zero (the float quotient, cut to the grid).
TDiv(a, b) == IF a >= 0 THEN a \div b ELSE -((-a) \div b)

\* x * f for a fraction f given in 1/FracScale.
MulFrac(x, f) == TDiv(x * f, FracScale)

Max(a, b) == IF a >= b THEN a ELSE b

\* config.py DEFAULT_BOT_CONFIG, the keys main.py reads in the trading loop.
DEFAULT_BOT_CONFIG ==
    [ simulation_mode     |-> TRUE,
      simulation_spread   |-> 10,
      simulation_slippage |-> 5,
      initial_balance     |-> 1000 * MoneyScale,
      position_size       |-> 1000,
      stop_loss           |-> 200,
      take_profit         |-> 400,
      rsi_overbought      |-> 70,
      rsi_oversold        |-> 30,
      max_open_trades     |-> 3,
      max_daily_loss      |-> 500,
      max_drawdown        |-> 1500 ]

\* load_bot_config returns the stored configuration of the bot when there is
\* one, else the default: the configurations an agent is constructed with.
\* Both execution modes; a stop_loss of 0 is a configuration whose stop level
\* coincides with the entry; max_open_trades and max_drawdown are lowered so
\* that the cap and the risk limit are met within MaxTicks ticks.
load_bot_config ==
    { [DEFAULT_BOT_CONFIG EXCEPT !.simulation_mode = m,
                                 !.stop_loss = sl,
                                 !.max_open_trades = 2,
                                 !.max_drawdown = 100] :
        m \in BOOLEAN, sl \in {0, 200} }

\* Close of the last candle returned by a fetch.
Prices == {95 * PriceScale, 100 * PriceScale, 105 * PriceScale}

\* A column value of the last row of the data frame: a number or NaN.
NaN == [nan |-> TRUE, v |-> 0]
Num(n) == [nan |-> FALSE, v |-> n]
\* NaN compared as the number stored in its place.
Lt_NaNAsNumber(a, b) == a.v < b.v

\* Float comparison: every comparison with NaN is false.
Lt(a, b) == ~a.nan /\ ~b.nan /\ a.v < b.v
Gt(a, b) == ~a.nan /\ ~b.nan /\ a.v > b.v

\* Indicator values the library may produce for the last candle.
Snapshots ==
    [ rsi      : {NaN, Num(25), Num(30), Num(70), Num(80)},
      sma_fast : {NaN, Num(95), Num(100), Num(105)},
      sma_slow : {NaN, Num(100)} ]

NoSnapshot == [rsi |-> NaN, sma_fast |-> NaN, sma_slow |-> NaN]
NoPrice == 0 * PriceScale
NoPerformance == [balance |-> 0, daily_loss |-> 0, max_drawdown |-> 0,
                  open_trades |-> 0, tick |-> 0, stored |-> FALSE]

VARIABLES
    bot_config,     \* self.bot_config
    balance,        \* self.balance
    open_trades,    \* self.open_trades, a list of trade dicts
    daily_loss,     \* self.daily_loss
    max_drawdown,   \* self.max_drawdown
    trade_log,      \* events handed to db.record_trade (simulation_history in
                    \* simulation mode holds the same events)
    performance,    \* last snapshot handed to db.record_performance, the tick
                    \* of the call and whether the write succeeded
    db_open,        \* FALSE once self.db.close() has run
    df,             \* the tick's data frame: last close and last indicator row
    signal,         \* the tick's signal: "buy", "sell" or "none"
    exec_result,    \* how the tick's execute_trade call ended
    pc,             \* position of run() within the tick
    tick,           \* number of the current loop iteration
    close_calls,    \* number of close_trade calls made from outside run()
    fetch_result,   \* how the tick's get_market_data call ended
    orders,         \* number of order placements asked of the exchange
    wall_clock,     \* the wall clock: the day, and whether it reads 00:00
    risk_day,       \* the day of the previous run of update_risk_metrics
    resets,         \* number of times main.py:346 has reset daily_loss
    sibling         \* the other agent started by __main__, on its own thread

vars == <<bot_config, balance, open_trades, daily_loss, max_drawdown,
          trade_log, performance, db_open, df, signal, exec_result, pc, tick,
          close_calls, fetch_result, orders, wall_clock, risk_day, resets,
          sibling>>

(***************************************************************************)
(* execute_trade                                                           *)
(***************************************************************************)

\* The cap test off by one: > for >=.
MaxOpenTradesReached_OffByOne(cfg, trades) == Len(trades) > cfg.max_open_trades

\* main.py:134  the concurrency cap test that opens execute_trade.
MaxOpenTradesReached(cfg, trades) == Len(trades) >= cfg.max_open_trades

\* The size taken from the balance the agent started with.
PositionSize_Initial(cfg, bal) == MulFrac(cfg.initial_balance, cfg.position_size)

\* main.py:139  position_size = self.balance * position_size
PositionSize(cfg, bal) == MulFrac(bal, cfg.position_size)

\* The simulated entry price with the slippage left out.
EntryPrice_NoSlippage(cfg, sig, last_price) ==
    IF cfg.simulation_mode
    THEN IF sig = "buy"
         THEN MulFrac(last_price, FracScale + cfg.simulation_spread)
         ELSE MulFrac(last_price, FracScale - cfg.simulation_spread)
    ELSE last_price

\* main.py:144-147 (simulation: spread and slippage applied to the last
\* close) and main.py:180, 202 (live: the last close itself).
EntryPrice(cfg, sig, last_price) ==
    IF cfg.simulation_mode
    THEN IF sig = "buy"
         THEN MulFrac(last_price,
                      FracScale + cfg.simulation_spread + cfg.simulation_slippage)
         ELSE MulFrac(last_price,
                      FracScale - cfg.simulation_spread - cfg.simulation_slippage)
    ELSE last_price

\* main.py:151, 181, 203
StopLossPrice(cfg, sig, entry) ==
    IF sig = "buy" THEN MulFrac(entry, FracScale - cfg.stop_loss)
                   ELSE MulFrac(entry, FracScale + cfg.stop_loss)

\* main.py:152, 182, 204
TakeProfitPrice(cfg, sig, entry) ==
    IF sig = "buy" THEN MulFrac(entry, FracScale + cfg.take_profit)
                   ELSE MulFrac(entry, FracScale - cfg.take_profit)

\* The trade dict built by execute_trade.  In simulation mode the dict has
\* the keys 'type' (the signal) and 'timestamp'; the live dict has neither
\* ("absent", 0).  The field side is not a key of the program's dict: it is
\* the history of the call, Long for a trade opened by a buy signal and
\* Short for one opened by a sell signal, and no operation of the model
\* reads it.
NewTrade(cfg, sig, last_price, bal, now) ==
    LET entry == EntryPrice(cfg, sig, last_price) IN
    [ entry_price |-> entry,
      stop_loss   |-> StopLossPrice(cfg, sig, entry),
      take_profit |-> TakeProfitPrice(cfg, sig, entry),
      size        |-> PositionSize(cfg, bal),
      type        |-> IF cfg.simulation_mode THEN sig ELSE "absent",
      timestamp   |-> IF cfg.simulation_mode THEN now ELSE 0,
      side        |-> IF sig = "buy" THEN "Long" ELSE "Short" ]

\* The event execute_trade hands to db.record_trade after the append.
OpenEvent(trade, bal) ==
    [type |-> "open", trade |-> trade, balance |-> bal]

(***************************************************************************)
(* check_open_trades and close_trade                                       *)
(***************************************************************************)

\* main.py:224-225, 236  the branch check_open_trades takes for a trade: the
\* stored 'type' in simulation mode, entry_price > current_price otherwise.
CheckAsLong(cfg, trade, current_price) ==
    IF cfg.simulation_mode THEN trade.type = "buy"
                           ELSE trade.entry_price > current_price

\* main.py:225-245  the reason check_open_trades closes a trade with, or
\* "none" when it leaves the trade open.
ExitReason(cfg, trade, current_price) ==
    IF CheckAsLong(cfg, trade, current_price)
    THEN IF current_price <= trade.stop_loss THEN "stop_loss"
         ELSE IF current_price >= trade.take_profit THEN "take_profit"
         ELSE "none"
    ELSE IF current_price >= trade.stop_loss THEN "stop_loss"
         ELSE IF current_price <= trade.take_profit THEN "take_profit"
         ELSE "none"

\* main.py:250-251, 275  the branch close_trade takes for a trade.
CloseAsLong(cfg, trade, current_price) ==
    IF cfg.simulation_mode THEN trade.type = "buy"
                           ELSE trade.entry_price > current_price

\* main.py:252, 254, 276, 278
ClosePnl(cfg, trade, current_price) ==
    IF CloseAsLong(cfg, trade, current_price)
    THEN TDiv((current_price - trade.entry_price) * trade.size, trade.entry_price)
    ELSE TDiv((trade.entry_price - current_price) * trade.size, trade.entry_price)

\* The balance update with the sign of the pnl lost.
ApplyPnl_Subtract(bal, pnl) == bal - pnl

\* main.py:256, 280  self.balance += pnl
ApplyPnl(bal, pnl) == bal + pnl

\* Equality of two trade dicts, as list.remove compares them: key by key.
DictEq(a, b) ==
    /\ a.entry_price = b.entry_price
    /\ a.stop_loss = b.stop_loss
    /\ a.take_profit = b.take_profit
    /\ a.size = b.size
    /\ a.type = b.type
    /\ a.timestamp = b.timestamp

Contains(trades, trade) ==
    \E i \in DOMAIN trades : DictEq(trades[i], trade)

\* main.py:257, 281  list.remove: the first element equal to the trade goes.
RECURSIVE ListRemove(_, _)
ListRemove(trades, trade) ==
    IF trades = <<>> THEN <<>>
    ELSE IF DictEq(Head(trades), trade) THEN Tail(trades)
    ELSE <<Head(trades)>> \o ListRemove(Tail(trades), trade)

\* The event close_trade builds (main.py:260-267, 284-291).
CloseEvent(trade, current_price, pnl, bal, reason) ==
    [type |-> "close", trade |-> trade, close_price |-> current_price,
     pnl |-> pnl, balance |-> bal, reason |-> reason]

\* main.py:247-296  close_trade on the ledger st = [balance, open_trades,
\* trade_log].  The balance is updated first; list.remove raises ValueError
\* for a trade that is not in the list, the except clause logs it, and the
\* event is then neither built nor recorded.
close_trade(cfg, st, trade, current_price, reason) ==
    LET pnl == ClosePnl(cfg, trade, current_price)
        bal == ApplyPnl(st.balance, pnl)
    IN  IF Contains(st.open_trades, trade)
        THEN [ balance     |-> bal,
               open_trades |-> ListRemove(st.open_trades, trade),
               trade_log   |-> Append(st.trade_log,
                                  CloseEvent(trade, current_price, pnl, bal, reason)) ]
        ELSE [st EXCEPT !.balance = bal]

\* main.py:221-245  the loop of check_open_trades over the copy
\* self.open_trades[:] taken when the pass starts.
RECURSIVE CheckLoop(_, _, _, _)
CheckLoop(cfg, copy, current_price, st) ==
    IF copy = <<>> THEN st
    ELSE LET trade  == Head(copy)
             reason == ExitReason(cfg, trade, current_price)
         IN  CheckLoop(cfg, Tail(copy), current_price,
                       IF reason = "none" THEN st
                       ELSE close_trade(cfg, st, trade, current_price, reason))

\* The pass cut short after the first trade of the list.
check_open_trades_FirstOnly(cfg, st, current_price) ==
    CheckLoop(cfg, IF st.open_trades = <<>> THEN <<>>
                   ELSE <<Head(st.open_trades)>>, current_price, st)

check_open_trades(cfg, st, current_price) ==
    CheckLoop(cfg, st.open_trades, current_price, st)

(***************************************************************************)
(* check_trading_signals and update_risk_metrics                           *)
(***************************************************************************)

\* main.py:116-130
check_trading_signals(cfg, last_row) ==
    IF Lt(last_row.rsi, Num(cfg.rsi_oversold))
       /\ Gt(last_row.sma_fast, last_row.sma_slow)
    THEN "buy"
    ELSE IF Gt(last_row.rsi, Num(cfg.rsi_overbought))
            /\ Lt(last_row.sma_fast, last_row.sma_slow)
    THEN "sell"
    ELSE "none"

\* main.py:349
CurrentDrawdown(cfg, bal) ==
    TDiv((cfg.initial_balance - bal) * FracScale, cfg.initial_balance)

\* The limit test with the drawdown disjunct forgotten.
RiskLimitsExceeded_DailyOnly(cfg, dloss, mdd) == dloss >= cfg.max_daily_loss

\* main.py:353-354
RiskLimitsExceeded(cfg, dloss, mdd) ==
    dloss >= cfg.max_daily_loss \/ mdd >= cfg.max_drawdown

(***************************************************************************)
(* The agent: __init__ and the steps of run()                              *)
(***************************************************************************)

\* main.py:24-35  the fields __init__ sets once the configuration is loaded.
Constructed ==
    /\ balance = bot_config.initial_balance
    /\ open_trades = <<>>
    /\ daily_loss = 0
    /\ max_drawdown = 0
    /\ trade_log = <<>>
    /\ performance = NoPerformance
    /\ db_open = TRUE
    /\ df = [close |-> NoPrice, last_row |-> NoSnapshot]
    /\ signal = "none"
    /\ exec_result = "none"
    /\ pc = "fetch"
    /\ tick = 0
    /\ close_calls = 0
    /\ fetch_result = "none"
    /\ orders = 0
    /\ wall_clock = [day |-> 0, midnight |-> FALSE]
    /\ risk_day = 0
    /\ sibling = [running |-> TRUE, ticks |-> 0,
                  balance |-> bot_config.initial_balance, open_trades |-> <<>>,
                  daily_loss |-> 0, max_drawdown |-> 0]
    /\ resets = 0

\* main.py:22-35
Init ==
    /\ bot_config \in load_bot_config
    /\ Constructed

\* A failed fetch taken for fatal: the loop ends instead of sleeping.
AfterFetch_Fatal(result) == IF result = "ok" THEN "indicator" ELSE "halted"

\* main.py:307-310  where run() goes after get_market_data: on to the
\* indicators with a data frame, to time.sleep(60) and the next iteration
\* with None.
AfterFetch(result) == IF result = "ok" THEN "indicator" ELSE "sleep"

\* main.py:307-310, get_market_data (50-100).  The call ends in one of three
\* ways: "ok", the data frame is returned; "fetch_error", the exchange fetch
\* raised; "store_error", the candles were fetched and db.record_market_data
\* (main.py:91) raised.  Both errors are caught by the except clause of
\* get_market_data (98-100), which returns None.
Fetch ==
    /\ pc = "fetch"
    /\ tick < MaxTicks
    /\ tick' = tick + 1
    /\ exec_result' = "none"
    /\ \/ \E p \in Prices :
            /\ df' = [close |-> p, last_row |-> NoSnapshot]
            /\ fetch_result' = "ok"
       \/ /\ df' = df
          /\ fetch_result' \in {"fetch_error", "store_error"}
    /\ pc' = AfterFetch(fetch_result')
    /\ UNCHANGED <<bot_config, balance, open_trades, daily_loss, max_drawdown,
                   trade_log, performance, db_open, signal, close_calls,
                   orders, wall_clock, risk_day, resets,
                   sibling>>

\* main.py:313, calculate_indicators (102-114): the library's values for the
\* last candle.
CalculateIndicators ==
    /\ pc = "indicator"
    /\ \E row \in Snapshots : df' = [df EXCEPT !.last_row = row]
    /\ pc' = "signal"
    /\ UNCHANGED <<bot_config, balance, open_trades, daily_loss, max_drawdown,
                   trade_log, performance, db_open, signal, exec_result, tick,
                   close_calls, fetch_result, orders, wall_clock, risk_day, resets,
                   sibling>>

\* execute_trade called whatever the signal.
AfterSignal_AlwaysExecute(sig) == "execute"

\* main.py:317-321  if signal: execute_trade; then the open trades.
AfterSignal(sig) == IF sig # "none" THEN "execute" ELSE "exits"

\* main.py:316-317.  The indicator columns are not read again in the tick.
CheckTradingSignals ==
    /\ pc = "signal"
    /\ signal' = check_trading_signals(bot_config, df.last_row)
    /\ df' = [df EXCEPT !.last_row = NoSnapshot]
    /\ pc' = AfterSignal(signal')
    /\ UNCHANGED <<bot_config, balance, open_trades, daily_loss, max_drawdown,
                   trade_log, performance, db_open, exec_result, tick,
                   close_calls, fetch_result, orders, wall_clock, risk_day, resets,
                   sibling>>

\* The trade appended before the order is known to be placed.
TradesAfterOrder_AppendFirst(trades, trade, order_ok) == Append(trades, trade)

\* main.py:175-185, 197-207 (and 149-158 in simulation, where nothing is
\* ordered): the append follows the order placement, so an order that
\* raises leaves the list as it was.
TradesAfterOrder(trades, trade, order_ok) ==
    IF order_ok THEN Append(trades, trade) ELSE trades

\* main.py:318, execute_trade (132-219).  In live mode the order placement
\* may raise; the except clause (218-219) logs it and execute_trade returns.
\* A db.record_trade that raises is caught by the same clause after the
\* append; nothing in memory depends on it.
ExecuteTrade ==
    /\ pc = "execute"
    /\ IF MaxOpenTradesReached(bot_config, open_trades)
       THEN /\ exec_result' = "rejected"
            /\ UNCHANGED <<open_trades, trade_log, orders>>
       ELSE \E order_ok \in IF bot_config.simulation_mode THEN {TRUE} ELSE BOOLEAN :
              LET trade == NewTrade(bot_config, signal, df.close, balance, tick) IN
              /\ orders' = IF bot_config.simulation_mode THEN orders ELSE orders + 1
              /\ open_trades' = TradesAfterOrder(open_trades, trade, order_ok)
              /\ trade_log' = IF order_ok
                              THEN Append(trade_log, OpenEvent(trade, balance))
                              ELSE trade_log
              /\ exec_result' = IF order_ok THEN "opened" ELSE "failed"
    /\ pc' = "exits"
    /\ UNCHANGED <<bot_config, balance, daily_loss, max_drawdown, performance,
                   db_open, df, signal, tick, close_calls, fetch_result, wall_clock,
                   risk_day, resets,
                   sibling>>

\* main.py:321-322, check_open_trades (221-245) with every close_trade it
\* calls.
CheckOpenTrades ==
    /\ pc = "exits"
    /\ LET st == check_open_trades(bot_config,
                    [balance |-> balance, open_trades |-> open_trades,
                     trade_log |-> trade_log], df.close)
       IN  /\ balance' = st.balance
           /\ open_trades' = st.open_trades
           /\ trade_log' = st.trade_log
    /\ pc' = "risk"
    /\ UNCHANGED <<bot_config, daily_loss, max_drawdown, performance, db_open,
                   df, signal, exec_result, tick, close_calls, fetch_result,
                   orders, wall_clock, risk_day, resets,
                   sibling>>

\* main.py:345  datetime.now().hour == 0 and datetime.now().minute == 0
AtMidnight(clock) == clock.midnight

\* main.py:350 with the running maximum lost: the current drawdown alone.
NewMaxDrawdown_Current(cfg, mdd, bal) == CurrentDrawdown(cfg, bal)

\* main.py:349-350
NewMaxDrawdown(cfg, mdd, bal) == Max(mdd, CurrentDrawdown(cfg, bal))

\* The agent's thread after the risk check that met a limit, ended for the
\* whole process.
SiblingAfterExit_ProcessExit(running) == FALSE

\* main.py:357, 382  exit(1) raises SystemExit in the thread that runs
\* bot.run: that thread ends, a thread running another bot is as it was.
SiblingAfterExit(running) == running

\* main.py:325, update_risk_metrics (342-357).  When a limit is met the
\* method closes the database and calls exit(1): SystemExit is no Exception,
\* so it leaves run() through the loop's except clause and the agent's
\* thread ends.
UpdateRiskMetrics ==
    /\ pc = "risk"
    /\ daily_loss' = IF AtMidnight(wall_clock) THEN 0 ELSE daily_loss
    /\ resets' = IF AtMidnight(wall_clock) THEN resets + 1 ELSE resets
    /\ risk_day' = wall_clock.day
    /\ max_drawdown' = NewMaxDrawdown(bot_config, max_drawdown, balance)
    /\ IF RiskLimitsExceeded(bot_config, daily_loss', max_drawdown')
       THEN /\ db_open' = FALSE
            /\ pc' = "halted"
            /\ sibling' = [sibling EXCEPT !.running = SiblingAfterExit(@)]
       ELSE /\ db_open' = db_open
            /\ pc' = "persist"
            /\ sibling' = sibling
    /\ UNCHANGED <<bot_config, balance, open_trades, trade_log, performance,
                   df, signal, exec_result, tick, close_calls, fetch_result,
                   orders, wall_clock>>

\* main.py:328-333  db.record_performance; when the write raises, the
\* loop's except clause (338-340) logs it and sleeps.
RecordPerformance ==
    /\ pc = "persist"
    /\ \E write_ok \in BOOLEAN :
         performance' = [balance |-> balance, daily_loss |-> daily_loss,
                         max_drawdown |-> max_drawdown,
                         open_trades |-> Len(open_trades), tick |-> tick,
                         stored |-> write_ok]
    /\ pc' = "sleep"
    /\ UNCHANGED <<bot_config, balance, open_trades, daily_loss, max_drawdown,
                   trade_log, db_open, df, signal, exec_result, tick,
                   close_calls, fetch_result, orders, wall_clock, risk_day, resets,
                   sibling>>

\* The clock readings the next run of update_risk_metrics may see, a sleep
\* of 60 seconds and the tick's blocking calls later.  The ticks followed
\* span minutes, so at most one midnight falls among them (day 0 to day 1);
\* the reading after it is 00:00 or, when the 60 seconds and the calls carry
\* the loop past that minute, a later minute of the new day.
ClockAfterSleep(clock) ==
    IF clock.day = 0
    THEN {clock, [day |-> 1, midnight |-> TRUE], [day |-> 1, midnight |-> FALSE]}
    ELSE {[day |-> clock.day, midnight |-> FALSE]}

\* main.py:309-310, 336, 340  time.sleep(60), then the next iteration.
Sleep ==
    /\ pc = "sleep"
    /\ pc' = "fetch"
    /\ df' = [close |-> NoPrice, last_row |-> NoSnapshot]
    /\ signal' = "none"
    /\ fetch_result' = "none"
    /\ wall_clock' \in ClockAfterSleep(wall_clock)
    /\ UNCHANGED <<bot_config, balance, open_trades, daily_loss, max_drawdown,
                   trade_log, performance, db_open, exec_result, tick,
                   close_calls, orders, risk_day, resets,
                   sibling>>

Next ==
    \/ Fetch
    \/ CalculateIndicators
    \/ CheckTradingSignals
    \/ ExecuteTrade
    \/ CheckOpenTrades
    \/ UpdateRiskMetrics
    \/ RecordPerformance
    \/ Sleep

Spec == Init /\ [][Next]_vars

(***************************************************************************)
(* close_trade as a method of the object: besides the loop, a caller       *)
(* invokes it between two ticks on a trade the agent has already closed.   *)
(***************************************************************************)

\* Number of such calls the model follows.
MaxCloseCalls == 1

\* main.py:247-296  close_trade(trade, current_price, reason), called with
\* the trade of an earlier close event that is no longer in open_trades.
CloseTradeCall ==
    /\ pc = "sleep"
    /\ close_calls < MaxCloseCalls
    /\ \E i \in DOMAIN trade_log, p \in Prices, reason \in {"stop_loss", "take_profit"} :
         /\ trade_log[i].type = "close"
         /\ ~Contains(open_trades, trade_log[i].trade)
         /\ LET st == close_trade(bot_config,
                          [balance |-> balance, open_trades |-> open_trades,
                           trade_log |-> trade_log], trade_log[i].trade, p, reason)
            IN  /\ balance' = st.balance
                /\ open_trades' = st.open_trades
                /\ trade_log' = st.trade_log
    /\ close_calls' = close_calls + 1
    /\ UNCHANGED <<bot_config, daily_loss, max_drawdown, performance, db_open,
                   df, signal, exec_result, pc, tick, fetch_result, orders, wall_clock,
                   risk_day, resets,
                   sibling>>

NextApi ==
    \/ Next
    \/ CloseTradeCall

SpecApi == Init /\ [][NextApi]_vars

(***************************************************************************)
(* The second agent of __main__ (main.py:379-384): a TradingBot of its own *)
(* whose run() is the target of its own thread.  One step of the model is  *)
(* one whole iteration of its loop; it has the configuration load_bot_     *)
(* config gave the first agent and reads the same wall clock.              *)
(***************************************************************************)

\* Bound on the iterations of the second agent's loop.
MaxSiblingTicks == 1

\* main.py:304-333 on the fields s of the second agent, for an iteration
\* whose fetch succeeded with last close p and whose signal is sig.
SiblingRun(cfg, s, sig, p, order_ok, clock) ==
    LET opened == IF sig = "none" \/ MaxOpenTradesReached(cfg, s.open_trades)
                  THEN s.open_trades
                  ELSE TradesAfterOrder(s.open_trades,
                           NewTrade(cfg, sig, p, s.balance, s.ticks + 1),
                           order_ok)
        st     == check_open_trades(cfg, [balance     |-> s.balance,
                                          open_trades |-> opened,
                                          trade_log   |-> <<>>], p)
        dloss  == IF AtMidnight(clock) THEN 0 ELSE s.daily_loss
        mdd    == NewMaxDrawdown(cfg, s.max_drawdown, st.balance)
    IN  [ running      |-> ~RiskLimitsExceeded(cfg, dloss, mdd),
          ticks        |-> s.ticks + 1,
          balance      |-> st.balance,
          open_trades  |-> st.open_trades,
          daily_loss   |-> dloss,
          max_drawdown |-> mdd ]

\* One iteration of the second agent's loop, on its own fields only.
SiblingTick ==
    /\ sibling.running
    /\ sibling.ticks < MaxSiblingTicks
    /\ \/ sibling' = [sibling EXCEPT !.ticks = @ + 1]
       \/ \E sig \in {"none", "buy", "sell"}, p \in Prices,
             order_ok \in IF bot_config.simulation_mode THEN {TRUE} ELSE BOOLEAN :
            sibling' = SiblingRun(bot_config, sibling, sig, p, order_ok, wall_clock)
    /\ UNCHANGED <<bot_config, balance, open_trades, daily_loss, max_drawdown,
                   trade_log, performance, db_open, df, signal, exec_result,
                   pc, tick, close_calls, fetch_result, orders, wall_clock,
                   risk_day, resets>>

NextAgents ==
    \/ Next
    \/ SiblingTick

SpecAgents == Init /\ [][NextAgents]_vars

(***************************************************************************)
(* Construction from a stored configuration.  load_bot_config returns the  *)
(* document db.get_bot finds, as it was stored (config.py:53-59): here the *)
(* documents in which rsi_oversold is not below rsi_overbought or the      *)
(* position size is not positive.                                          *)
(***************************************************************************)

StoredMalformedConfigs ==
    { [c EXCEPT !.rsi_oversold = c.rsi_overbought,
                !.rsi_overbought = c.rsi_oversold] : c \in load_bot_config }
    \cup { [c EXCEPT !.position_size = 0] : c \in load_bot_config }

\* main.py:22-35 with such a document.
InitStored ==
    /\ bot_config \in StoredMalformedConfigs
    /\ Constructed

SpecStored == InitStored /\ [][Next]_vars

(***************************************************************************)
(* Shutdown.  The main thread sleeps until KeyboardInterrupt, prints a     *)
(* line and returns (main.py:386-391); the bots' threads are daemon        *)
(* threads (main.py:383), which the interpreter ends wherever they are     *)
(* when the main thread has returned.                                      *)
(***************************************************************************)

\* The position of a thread the interpreter has ended.
AfterInterrupt(position) == "killed"

KeyboardInterrupt ==
    /\ pc \notin {"halted", "killed"}
    /\ pc' = AfterInterrupt(pc)
    /\ sibling' = [sibling EXCEPT !.running = FALSE]
    /\ db_open' = db_open
    /\ UNCHANGED <<bot_config, balance, open_trades, daily_loss, max_drawdown,
                   trade_log, performance, df, signal, exec_result, tick,
                   close_calls, fetch_result, orders, wall_clock, risk_day,
                   resets>>

NextShutdown ==
    \/ Next
    \/ KeyboardInterrupt

SpecShutdown == Init /\ [][NextShutdown]_vars

(***************************************************************************)
(* Properties                                                              *)
(***************************************************************************)

CloseEvents(log) == SelectSeq(log, LAMBDA e : e.type = "close")

RECURSIVE SumPnl(_)
SumPnl(events) ==
    IF events = <<>> THEN 0 ELSE Head(events).pnl + SumPnl(Tail(events))

\* Number of occurrences of a trade in a list of trades.
Count(trades, t) == Cardinality({i \in DOMAIN trades : trades[i] = t})

\* The events a step appends to trade_log.
Appended == SubSeq(trade_log', Len(trade_log) + 1, Len(trade_log'))

\* The exit rule by the side recorded at open: the reason a trade is closed
\* with at price p, "none" when it stays open.
RuleExit(t, p) ==
    IF t.side = "Long"
    THEN IF p <= t.stop_loss THEN "stop_loss"
         ELSE IF p >= t.take_profit THEN "take_profit"
         ELSE "none"
    ELSE IF p >= t.stop_loss THEN "stop_loss"
         ELSE IF p <= t.take_profit THEN "take_profit"
         ELSE "none"

\* The pnl by the side recorded at open.
RulePnl(t, p) ==
    IF t.side = "Long"
    THEN TDiv((p - t.entry_price) * t.size, t.entry_price)
    ELSE TDiv((t.entry_price - p) * t.size, t.entry_price)

\* C1: in both modes, the side that exit evaluation (check_open_trades) and
\* the pnl computation (close_trade) use for a trade is the side recorded
\* when the trade was opened, never one derived from comparing entry_price
\* with the current price.  Stated for the pass about to run at price
\* df.close.
C1_SideFixedAtOpen ==
    pc = "exits" =>
        \A i \in DOMAIN open_trades :
            LET t == open_trades[i] IN
            /\ CheckAsLong(bot_config, t, df.close) <=> (t.side = "Long")
            /\ ExitReason(bot_config, t, df.close) # "none" =>
                   (CloseAsLong(bot_config, t, df.close) <=> (t.side = "Long"))

\* C2: balance is initial_balance plus the sum of the pnl of the close events
\* emitted so far; an exit pass adds to balance the pnl of exactly the close
\* events it emits, one per trade it removes from open_trades, and removes
\* nothing else; no other step changes balance or emits a close event.
C2_LedgerStep ==
    LET closes == CloseEvents(Appended) IN
    /\ Len(trade_log') >= Len(trade_log)
    /\ SubSeq(trade_log', 1, Len(trade_log)) = trade_log
    /\ balance' = balance + SumPnl(closes)
    /\ IF pc = "exits"
       THEN /\ Len(closes) = Len(Appended)
            /\ Len(open_trades') = Len(open_trades) - Len(closes)
            /\ \A i \in DOMAIN open_trades :
                 LET t == open_trades[i] IN
                 Count(open_trades, t) =
                     Count(open_trades', t)
                     + Cardinality({j \in DOMAIN closes : closes[j].trade = t})
       ELSE /\ closes = <<>>
            /\ balance' = balance

C2_BalanceConsistency ==
    /\ [](balance = bot_config.initial_balance + SumPnl(CloseEvents(trade_log)))
    /\ [][C2_LedgerStep]_vars

\* A gain and a loss have both been closed and the balance has moved.
C2_Witness ==
    /\ \E i \in DOMAIN trade_log : trade_log[i].type = "close" /\ trade_log[i].pnl > 0
    /\ \E i \in DOMAIN trade_log : trade_log[i].type = "close" /\ trade_log[i].pnl < 0
    /\ balance # bot_config.initial_balance

\* C3: in either mode, after every call of execute_trade (and in every other
\* state) len(open_trades) <= max_open_trades.
C3_OpenTradesBounded ==
    Len(open_trades) <= bot_config.max_open_trades

\* execute_trade has just returned from a call made with the list full.
C3_Witness ==
    /\ pc = "exits"
    /\ exec_result = "rejected"
    /\ Len(open_trades) = bot_config.max_open_trades

\* C4: in both modes an exit pass at price p closes a Long trade with
\* StopLoss if p <= stop_loss, else with TakeProfit if p >= take_profit, else
\* leaves it open; a Short trade symmetrically; a trade whose price is
\* strictly between its levels stays open.
C4_ExitRule ==
    [][ pc = "exits" =>
          \A i \in DOMAIN open_trades :
              LET t == open_trades[i]
                  r == RuleExit(t, df.close)
              IN  IF r = "none"
                  THEN Count(open_trades', t) = Count(open_trades, t)
                  ELSE /\ Count(open_trades', t) = 0
                       /\ Cardinality({j \in DOMAIN Appended :
                              /\ Appended[j].type = "close"
                              /\ Appended[j].trade = t
                              /\ Appended[j].reason = r}) = Count(open_trades, t)
      ]_vars

\* C5: in either mode the pnl of a close at price p is
\* (p - entry_price) * size / entry_price for a trade opened Long and
\* (entry_price - p) * size / entry_price for a trade opened Short.
C5_PnlFormula ==
    \A i \in DOMAIN trade_log :
        trade_log[i].type = "close" =>
            trade_log[i].pnl = RulePnl(trade_log[i].trade, trade_log[i].close_price)

\* C6: in both modes a trade opened Long and closed strictly above its entry
\* has pnl > 0, and a trade opened Short and closed strictly below its entry
\* has pnl > 0.
C6_PnlSign ==
    \A i \in DOMAIN trade_log :
        LET e == trade_log[i] IN
        e.type = "close" =>
            /\ (e.trade.side = "Long" /\ e.close_price > e.trade.entry_price) => e.pnl > 0
            /\ (e.trade.side = "Short" /\ e.close_price < e.trade.entry_price) => e.pnl > 0

\* C7: every trade in open_trades has stop_loss < entry_price < take_profit
\* if Long and take_profit < entry_price < stop_loss if Short (a
\* configuration that would break the ordering creates no trade).
C7_LevelsOrdered ==
    \A i \in DOMAIN open_trades :
        LET t == open_trades[i] IN
        IF t.side = "Long"
        THEN t.stop_loss < t.entry_price /\ t.entry_price < t.take_profit
        ELSE t.take_profit < t.entry_price /\ t.entry_price < t.stop_loss

\* C8: a close invoked on a trade that is no longer in open_trades leaves
\* balance and open_trades unchanged and emits no close event.
C8_CloseIdempotent ==
    [][ close_calls' # close_calls =>
          UNCHANGED <<balance, open_trades, trade_log>> ]_vars

\* C9: the risk tick halts the agent iff, with the accumulators updated,
\* daily_loss >= max_daily_loss or max_drawdown >= max_drawdown (the limit);
\* otherwise it returns and the tick goes on to record the performance.
C9_HaltIff ==
    [][ pc = "risk" =>
          LET limit == \/ daily_loss' >= bot_config.max_daily_loss
                       \/ max_drawdown' >= bot_config.max_drawdown
          IN  /\ (pc' = "halted") <=> limit
              /\ (pc' = "persist") <=> ~limit
      ]_vars

\* The risk tick has halted the agent on the drawdown limit.
C9_Witness ==
    /\ pc = "halted"
    /\ max_drawdown >= bot_config.max_drawdown
    /\ daily_loss < bot_config.max_daily_loss

\* C10: halted is a one-way latch: a halted agent stays halted, opens no
\* trade and runs no further tick, and it terminates only with the halting
\* tick's performance snapshot handed to the store.
C10_HaltLatchWithFlush ==
    [][ /\ pc = "halted" =>
              (pc' = "halted" /\ open_trades' = open_trades /\ tick' = tick)
        /\ pc' = "halted" =>
              /\ performance'.tick = tick'
              /\ performance'.balance = balance'
              /\ performance'.max_drawdown = max_drawdown'
      ]_vars

\* C11: max_drawdown never decreases, whatever the step: ticks after the
\* balance has recovered and ticks with failed fetches included.
C11_DrawdownMonotone ==
    [][max_drawdown' >= max_drawdown]_vars

\* A risk check has run with the balance recovered above its lowest point.
C11_Witness ==
    /\ pc = "persist"
    /\ max_drawdown > 0
    /\ CurrentDrawdown(bot_config, balance) < max_drawdown

\* C12: update_risk_metrics resets daily_loss exactly at the runs whose day
\* differs from the day of the previous run, whatever the spacing of the
\* ticks: never skipped at such a run, never done at a run on the same day.
C12_ResetOncePerDay ==
    [][ pc = "risk" =>
          /\ (wall_clock.day # risk_day) => resets' = resets + 1
          /\ (wall_clock.day = risk_day) => resets' = resets
      ]_vars

\* C13: the daily-loss limit is effective: after a risk check that follows a
\* net loss realized within the day, daily_loss is greater than 0, and when
\* that loss has reached the max_daily_loss fraction the check halts the
\* agent.  Stated for the day of the agent's start, on which every close so
\* far has happened.
C13_DailyLossEffective ==
    [][ (pc = "risk" /\ wall_clock.day = 0 /\ risk_day = 0
         /\ balance < bot_config.initial_balance) =>
          /\ daily_loss' > 0
          /\ (CurrentDrawdown(bot_config, balance) >= bot_config.max_daily_loss
                 => pc' = "halted")
      ]_vars

\* C14: execute_trade called with len(open_trades) >= max_open_trades returns
\* without raising: no trade is created, no order is placed, no event is
\* recorded, open_trades and balance are as before, and the tick goes on.
C14_RejectedAtCap ==
    [][ (pc = "execute" /\ Len(open_trades) >= bot_config.max_open_trades) =>
          /\ UNCHANGED <<open_trades, balance, trade_log, orders>>
          /\ exec_result' = "rejected"
          /\ pc' = "exits"
      ]_vars

\* A sell signal has just been rejected with the list full.
C14_Witness ==
    /\ pc = "exits"
    /\ signal = "sell"
    /\ exec_result = "rejected"
    /\ Len(open_trades) >= bot_config.max_open_trades
    /\ trade_log # <<>>

\* C15: a tick whose fetch returns no data skips the indicators through the
\* performance record and leaves balance, open_trades, daily_loss and
\* max_drawdown (and the events and snapshots recorded) unchanged; the agent
\* sleeps and the sleep is followed by the next fetch, never by a halt.
C15_FetchFailureNonFatal ==
    [][ /\ (pc = "fetch" /\ fetch_result' \in {"fetch_error", "store_error"}) =>
              /\ pc' = "sleep"
              /\ UNCHANGED <<balance, open_trades, daily_loss, max_drawdown,
                             trade_log, performance, db_open, orders>>
        /\ pc = "sleep" =>
              /\ pc' = "fetch"
              /\ UNCHANGED <<balance, open_trades, daily_loss, max_drawdown,
                             trade_log, performance, db_open, orders>>
      ]_vars

\* Two ticks in a row have fetched nothing and a third fetch has been made:
\* no tick has recorded a performance snapshot yet.
C15_Witness ==
    /\ tick > 2
    /\ pc = "indicator"
    /\ performance = NoPerformance

\* C16: in live mode an order placement that fails adds no trade, leaves
\* balance unchanged and records no event; the order is not placed again in
\* the tick, which goes on with the exits, the risk check, the performance
\* record and the sleep, and the loop goes on to the next fetch.
C16_OrderFailureSkipsTrade ==
    [][ /\ (pc = "execute" /\ exec_result' = "failed") =>
              /\ ~bot_config.simulation_mode
              /\ orders' = orders + 1
              /\ UNCHANGED <<open_trades, balance, trade_log>>
              /\ pc' = "exits"
        /\ exec_result = "failed" =>
              /\ orders' = orders
              /\ pc = "exits" => pc' = "risk"
              /\ pc = "risk" => pc' \in {"persist", "halted"}
              /\ pc = "persist" => pc' = "sleep"
              /\ pc = "sleep" => pc' = "fetch"
              /\ pc # "exits" => open_trades' = open_trades
      ]_vars

\* A tick whose order failed has run through to its sleep.
C16_Witness ==
    /\ pc = "sleep"
    /\ exec_result = "failed"
    /\ performance.tick = tick
    /\ open_trades # <<>>

\* C17: a write to the store that fails never blocks the tick: after a
\* failed record_market_data the tick goes on to the indicators as after a
\* successful one, and after record_performance, failed or not, to the sleep.
C17_StoreFailureDoesNotBlock ==
    [][ /\ (pc = "fetch" /\ fetch_result' = "store_error") => pc' = "indicator"
        /\ pc = "persist" => pc' = "sleep"
      ]_vars

\* C18: agents are isolated.  The step in which one agent halts leaves the
\* other agent's running flag, balance, open_trades and risk accumulators as
\* they were, as does every other step of that agent; an iteration of the
\* other agent's loop leaves the first agent's state as it was; and with the
\* first agent halted the other agent's next iteration can still be taken.
C18_AgentsIsolated ==
    /\ [](pc = "halted" /\ sibling.running /\ sibling.ticks < MaxSiblingTicks
             => ENABLED SiblingTick)
    /\ [][ /\ (pc # "halted" /\ pc' = "halted") => sibling' = sibling
           /\ pc' # pc => sibling' = sibling
           /\ sibling' # sibling =>
                 /\ sibling.running
                 /\ UNCHANGED <<balance, open_trades, daily_loss, max_drawdown,
                                trade_log, performance, db_open, pc, tick>>
         ]_vars

\* The first agent has halted with the second agent's loop still running
\* and its first trade still open.
C18_Witness ==
    /\ pc = "halted"
    /\ sibling.running
    /\ sibling.ticks > 0
    /\ sibling.open_trades # <<>>

\* C19: within a tick the steps run in the order Fetch, Indicator, Signal,
\* Execute (only for a buy or sell signal), ManageExits, RiskCheck, Persist,
\* Sleep, each at most once; the risk check uses the balance left by the
\* tick's closes and the performance snapshot holds the accumulators left by
\* the tick's risk check.
C19_TickOrder ==
    [][ /\ pc = "fetch" => (pc' = "indicator" /\ fetch_result' = "ok" /\ tick' = tick + 1)
                           \/ (pc' = "sleep" /\ fetch_result' # "ok" /\ tick' = tick + 1)
        /\ pc # "fetch" => tick' = tick
        /\ pc = "indicator" => pc' = "signal"
        /\ pc = "signal" =>
              /\ (pc' = "execute" /\ signal' \in {"buy", "sell"})
                 \/ (pc' = "exits" /\ signal' = "none")
        /\ pc = "execute" => pc' = "exits" /\ balance' = balance
        /\ pc = "exits" => pc' = "risk"
        /\ pc = "risk" =>
              /\ pc' \in {"persist", "halted"}
              /\ balance' = balance
              /\ max_drawdown' = Max(max_drawdown, CurrentDrawdown(bot_config, balance))
        /\ pc = "persist" =>
              /\ pc' = "sleep"
              /\ performance'.balance = balance
              /\ performance'.daily_loss = daily_loss
              /\ performance'.max_drawdown = max_drawdown
              /\ performance'.open_trades = Len(open_trades)
              /\ performance'.tick = tick
        /\ pc = "sleep" => pc' = "fetch"
        /\ pc = "halted" => FALSE
      ]_vars

\* A tick has opened a trade, closed one at a loss or gain, run its risk
\* check and recorded its snapshot.
C19_Witness ==
    /\ pc = "sleep"
    /\ exec_result = "opened"
    /\ performance.tick = tick
    /\ performance.balance # bot_config.initial_balance
    /\ performance.max_drawdown > 0

\* C20: check_trading_signals returns buy iff rsi < rsi_oversold and
\* sma_fast > sma_slow, sell iff rsi > rsi_overbought and sma_fast <
\* sma_slow, and none otherwise, in particular whenever one of the three
\* values is undefined; buy and sell exclude each other and an undefined
\* snapshot leads to no execute_trade.
C20_SignalRule ==
    [][ pc = "signal" =>
          LET r       == df.last_row
              defined == ~r.rsi.nan /\ ~r.sma_fast.nan /\ ~r.sma_slow.nan
              buy     == /\ defined
                         /\ r.rsi.v < bot_config.rsi_oversold
                         /\ r.sma_fast.v > r.sma_slow.v
              sell    == /\ defined
                         /\ r.rsi.v > bot_config.rsi_overbought
                         /\ r.sma_fast.v < r.sma_slow.v
          IN  /\ (signal' = "buy") <=> buy
              /\ (signal' = "sell") <=> sell
              /\ (signal' = "none") <=> (~buy /\ ~sell)
              /\ ~(buy /\ sell)
              /\ ~defined => pc' = "exits"
      ]_vars

\* check_trading_signals has returned buy and execute_trade is about to run.
C20_Witness ==
    /\ pc = "execute"
    /\ signal = "buy"
    /\ exec_result = "none"
\* C21: an agent whose configuration has rsi_oversold >= rsi_overbought or
\* a position size fraction <= 0 is stopped at construction: it never
\* fetches, never evaluates a signal and never opens a trade.
C21_MalformedConfigRejected ==
    (bot_config.rsi_oversold >= bot_config.rsi_overbought
     \/ bot_config.position_size <= 0) =>
        /\ tick = 0
        /\ pc = "fetch"
        /\ trade_log = <<>>
        /\ open_trades = <<>>

\* C22: the entry price of a new trade is reference * (1 + spread +
\* slippage) for a buy and reference * (1 - spread - slippage) for a sell in
\* simulation mode (50000 with spread 0.001 and slippage 0.0005 gives 50075),
\* and the reference price itself in live mode; in simulation mode an
\* execute_trade below the cap always opens the trade, with no order sent.
C22_EntryPrice ==
    [][ /\ (pc = "execute" /\ exec_result' = "opened") =>
              LET t   == open_trades'[Len(open_trades')]
                  ref == df.close
                  k   == bot_config.simulation_spread + bot_config.simulation_slippage
              IN  t.entry_price =
                     IF ~bot_config.simulation_mode THEN ref
                     ELSE IF signal = "buy"
                          THEN TDiv(ref * (FracScale + k), FracScale)
                          ELSE TDiv(ref * (FracScale - k), FracScale)
        /\ (pc = "execute" /\ bot_config.simulation_mode
            /\ Len(open_trades) < bot_config.max_open_trades) =>
              /\ exec_result' = "opened"
              /\ orders' = orders
        /\ EntryPrice(DEFAULT_BOT_CONFIG, "buy", 50000) = 50075
        /\ EntryPrice(DEFAULT_BOT_CONFIG, "sell", 50000) = 49925
      ]_vars

\* A simulated sell has been filled below the reference price.
C22_Witness ==
    /\ pc = "exits"
    /\ exec_result = "opened"
    /\ bot_config.simulation_mode
    /\ signal = "sell"
    /\ open_trades # <<>>
    /\ open_trades[Len(open_trades)].entry_price < df.close

\* C23: on a shutdown signal an agent in the middle of a tick finishes the
\* tick through the performance record before its thread ends, so a thread
\* ends only before a fetch or in the sleep; and an ended agent starts no
\* fetch.
C23_CleanShutdown ==
    [][ /\ (pc # "killed" /\ pc' = "killed") => pc \in {"fetch", "sleep"}
        /\ pc = "killed" => pc' = "killed" /\ tick' = tick
      ]_vars
\* C24: after check_open_trades(p) no trade left in open_trades meets its
\* stop-loss or take-profit condition at p; every trade that met one has
\* been closed exactly once in the pass (one close event per occurrence, none
\* left in the list); and a trade that met none is still in the list with no
\* close event, whatever was closed around it.
C24_ExitPassComplete ==
    [][ pc = "exits" =>
          LET p         == df.close
              closes(t) == Cardinality({j \in DOMAIN Appended :
                               Appended[j].type = "close" /\ Appended[j].trade = t})
          IN  /\ \A i \in DOMAIN open_trades' :
                    /\ ExitReason(bot_config, open_trades'[i], p) = "none"
                    /\ RuleExit(open_trades'[i], p) = "none"
              /\ \A i \in DOMAIN open_trades :
                    LET t == open_trades[i] IN
                    IF ExitReason(bot_config, t, p) # "none"
                    THEN /\ Count(open_trades', t) = 0
                         /\ closes(t) = Count(open_trades, t)
                    ELSE /\ Count(open_trades', t) = Count(open_trades, t)
                         /\ closes(t) = 0
              /\ Len(Appended) = Len(open_trades) - Len(open_trades')
      ]_vars

\* A pass has closed a trade with a pnl and left another trade open.
C24_Witness ==
    /\ pc = "risk"
    /\ open_trades # <<>>
    /\ trade_log # <<>>
    /\ trade_log[Len(trade_log)].type = "close"
    /\ balance # performance.balance

\* C25: a successful open appends exactly one trade, of size balance *
\* position_size computed from the balance at that moment, and leaves
\* balance unchanged; a trade in open_trades is the trade of its open event,
\* no other step adds or alters a trade, and a close event carries the trade
\* as it was opened.
C25_OpenAndImmutable ==
    /\ [](\A i \in DOMAIN open_trades :
             \E j \in DOMAIN trade_log :
                /\ trade_log[j].type = "open"
                /\ trade_log[j].trade = open_trades[i])
    /\ [][ /\ (pc = "execute" /\ exec_result' = "opened") =>
                 /\ Len(open_trades') = Len(open_trades) + 1
                 /\ SubSeq(open_trades', 1, Len(open_trades)) = open_trades
                 /\ open_trades'[Len(open_trades')].size =
                        TDiv(balance * bot_config.position_size, FracScale)
                 /\ balance' = balance
           /\ ~(pc = "execute" /\ exec_result' = "opened") =>
                 \A i \in DOMAIN open_trades' :
                    Count(open_trades', open_trades'[i])
                       <= Count(open_trades, open_trades'[i])
           /\ \A j \in DOMAIN Appended :
                 Appended[j].type = "close" =>
                    Count(open_trades, Appended[j].trade) > 0
         ]_vars

\* A trade sized from a balance that earlier closes had changed has been
\* opened and closed.
C25_Witness ==
    \E j \in DOMAIN trade_log :
        /\ trade_log[j].type = "close"
        /\ trade_log[j].trade.size #
              TDiv(bot_config.initial_balance * bot_config.position_size, FracScale)

====
